---- MODULE Spec2Model ----
(***************************************************************************)
(* library-pack: option resolution, configuration loading, output path     *)
(* mapping and the pack orchestrator, modelled from config.ts, index.ts    *)
(* and utils.ts.                                                           *)
(*                                                                         *)
(* Encoding of JavaScript values                                           *)
(*   - an options object is a function whose DOMAIN is the set of keys     *)
(*     that are present; an absent key is not in the DOMAIN;               *)
(*   - a path string is [abs, segs]: abs says whether it starts with "/",  *)
(*     segs is the sequence of its "/"-separated segments, and a segment   *)
(*     is the sequence of its "."-separated parts, so that "a.test.ts" is  *)
(*     <<"a","test","ts">>, "." is <<"","">> and ".." is <<"","","">>;     *)
(*     the empty string is [abs |-> FALSE, segs |-> <<>>];                 *)
(*   - a glob pattern is an opaque string; an array is a sequence.         *)
(***************************************************************************)
EXTENDS Integers, Sequences, FiniteSets, TLC

VARIABLES
    pc,          \* position of the running call
    options,     \* the partial options record handed to the call
    resolved,    \* resolveOptions(options)
    resolved2,   \* resolveOptions(resolveOptions(options))
    format,      \* loaders: "json" or "yaml"
    code,        \* loaders: the text of the configuration document
    loaded,      \* loaders: the record returned
    file,        \* transform: the absolute path of the source file
    outBase,     \* transform: the output path without extension
    artifacts,   \* transform: the four output paths
    world,       \* pack: the file system before the call (never changes)
    fsDirs,      \* pack: the directories that exist
    fsFiles,     \* pack: the regular files that exist, with their data
    files,       \* pack: the files glob discovered, in its order
    tasks,       \* pack: the transform call of each discovered file
    arg,         \* run: the argument of the call
    disk,        \* run: the configuration files that exist, with their content
    configFile,  \* run: the configuration file that loadOptions chose
    packCalls,   \* run: the records pack has been called with, in order
    errors       \* run: the number of errors logged with consola.error

resolveVars == <<options, resolved, resolved2>>
loadVars == <<format, code, loaded>>
pathVars == <<file, outBase, artifacts>>
fsVars == <<fsDirs, fsFiles>>
packVars == <<world, fsVars, files, tasks>>
runVars == <<arg, disk, configFile, packCalls, errors>>

vars == <<pc, resolveVars, loadVars, pathVars, packVars, runVars>>

\* The value of a variable that the running call does not use.
Idle == <<>>

\* The call was not made through run.
NoRun ==
    /\ arg = Idle /\ disk = Idle /\ configFile = Idle
    /\ packCalls = <<>> /\ errors = 0

----------------------------------------------------------------------------
(* Path strings.                                                           *)

Seg(name) == <<name>>
Str(abs, segs) == [abs |-> abs, segs |-> segs]
EmptyStr == Str(FALSE, <<>>)
RelStr(name) == Str(FALSE, <<Seg(name)>>)

\* JavaScript truthiness, by type: "" and false are falsy, every array and
\* every object (the empty ones included) is truthy.
TruthyStr(s) == s /= EmptyStr
TruthyBool(b) == b
TruthyArr(a) == TRUE
TruthyObj(o) == TRUE

Has(o, k) == k \in DOMAIN o

\* {...o, k: v}
Spread(o, k, v) == (k :> v) @@ o

----------------------------------------------------------------------------
(* config.ts: resolveOptions.                                              *)

DefaultSrcdir == RelStr("src")
DefaultOutdir == RelStr("out")
DefaultIncludes == <<"**/*.ts">>
DefaultExcludes == <<"node_modules/**/*", "**/*.test.ts", "**/test/**/*">>

\* options.srcdir || "src"
ResolveSrcdir(o) ==
    IF Has(o, "srcdir") /\ TruthyStr(o.srcdir) THEN o.srcdir ELSE DefaultSrcdir

\* options.outdir || "out"
ResolveOutdir(o) ==
    IF Has(o, "outdir") /\ TruthyStr(o.outdir) THEN o.outdir ELSE DefaultOutdir

\* A variant that takes an empty array for an absent one:
\* options.includes?.length ? options.includes : ["**/*.ts"]
ResolveIncludesNonEmpty(o) ==
    IF Has(o, "includes") /\ o.includes /= <<>> THEN o.includes
    ELSE <<"**/*.ts">>

\* options.includes || ["**/*.ts"]
ResolveIncludes(o) ==
    IF Has(o, "includes") /\ TruthyArr(o.includes) THEN o.includes
    ELSE DefaultIncludes

\* A variant that adds the caller's patterns to the default ones:
\* [...defaults, ...(options.excludes || [])]
ResolveExcludesMerged(o) ==
    <<"node_modules/**/*", "**/*.test.ts", "**/test/**/*">>
        \o (IF Has(o, "excludes") THEN o.excludes ELSE <<>>)

\* options.excludes || [...]
ResolveExcludes(o) ==
    IF Has(o, "excludes") /\ TruthyArr(o.excludes) THEN o.excludes
    ELSE DefaultExcludes

\* options.sourcemap || true
ResolveSourcemap(o) ==
    IF Has(o, "sourcemap") /\ TruthyBool(o.sourcemap) THEN o.sourcemap ELSE TRUE

\* options.typescript?.declaration
TsDeclarationPresent(o) ==
    Has(o, "typescript") /\ Has(o.typescript, "declaration")

\* options.typescript?.declaration?.sourcemap || true
ResolveDeclarationSourcemap(o) ==
    IF /\ TsDeclarationPresent(o)
       /\ Has(o.typescript.declaration, "sourcemap")
       /\ TruthyBool(o.typescript.declaration.sourcemap)
    THEN o.typescript.declaration.sourcemap
    ELSE TRUE

\* options.typescript?.declaration || { sourcemap: ... || true }
ResolveDeclaration(o) ==
    IF TsDeclarationPresent(o) /\ TruthyObj(o.typescript.declaration)
    THEN o.typescript.declaration
    ELSE [sourcemap |-> ResolveDeclarationSourcemap(o)]

\* { ...options.typescript, declaration: ... }
ResolveTypescript(o) ==
    Spread(IF Has(o, "typescript") THEN o.typescript ELSE <<>>,
           "declaration", ResolveDeclaration(o))

resolveOptions(o) ==
    [srcdir |-> ResolveSrcdir(o),
     outdir |-> ResolveOutdir(o),
     includes |-> ResolveIncludes(o),
     excludes |-> ResolveExcludes(o),
     sourcemap |-> ResolveSourcemap(o),
     typescript |-> ResolveTypescript(o)] @@ o

----------------------------------------------------------------------------
(* The partial options records handed to resolveOptions.                   *)

\* Every record whose present keys are a subset of the keys of `choices`
\* and whose value at a present key is one of the choices for it.
RECURSIVE PartialOver(_, _)
PartialOver(choices, ks) ==
    IF ks = {} THEN {<<>>}
    ELSE LET k == CHOOSE x \in ks : TRUE
             rest == PartialOver(choices, ks \ {k})
         IN  rest \cup {(k :> v) @@ r : v \in choices[k], r \in rest}

PartialOf(choices) == PartialOver(choices, DOMAIN choices)

SrcdirChoices == {EmptyStr, RelStr("src"), RelStr("lib")}
OutdirChoices == {EmptyStr, RelStr("out"), RelStr("dist")}
IncludesChoices == {<<>>, <<"**/*">>, <<"**/*.ts", "**/*.tsx">>}
ExcludesChoices == {<<>>, <<"node_modules/**/*">>}

DeclarationChoices ==
    PartialOf([sourcemap |-> BOOLEAN, stripInternal |-> {TRUE}])

TypescriptChoices ==
    PartialOf([declaration |-> DeclarationChoices, jsxPragma |-> {"h"}])

PackOptions ==
    {dirs @@ rest :
        dirs \in PartialOf([srcdir |-> SrcdirChoices, outdir |-> OutdirChoices]),
        rest \in {pats @@ flags @@ ts :
            pats \in PartialOf([includes |-> IncludesChoices,
                                excludes |-> ExcludesChoices]),
            flags \in PartialOf([emptyOutdir |-> BOOLEAN, sourcemap |-> BOOLEAN]),
            ts \in PartialOf([typescript |-> TypescriptChoices])}}

----------------------------------------------------------------------------
(* Specification of resolveOptions: a caller resolves a partial record and *)
(* then resolves the result again.                                         *)

ResolveInit ==
    /\ pc = "start"
    /\ options \in PackOptions
    /\ resolved = <<>>
    /\ resolved2 = <<>>
    /\ format = Idle /\ code = Idle /\ loaded = Idle
    /\ file = Idle /\ outBase = Idle /\ artifacts = Idle
    /\ world = Idle /\ fsDirs = {} /\ fsFiles = Idle
    /\ files = Idle /\ tasks = Idle
    /\ NoRun

Resolve ==
    /\ pc = "start"
    /\ resolved' = resolveOptions(options)
    /\ pc' = "resolved"
    /\ UNCHANGED <<options, resolved2, loadVars, pathVars, packVars, runVars>>

ResolveAgain ==
    /\ pc = "resolved"
    /\ resolved2' = resolveOptions(resolved)
    /\ pc' = "resolved2"
    /\ UNCHANGED <<options, resolved, loadVars, pathVars, packVars, runVars>>

ResolveNext == Resolve \/ ResolveAgain

SpecResolve == ResolveInit /\ [][ResolveNext]_vars

----------------------------------------------------------------------------
(* Properties of resolveOptions.                                           *)

\* C1: resolveOptions is idempotent: resolving an already resolved record
\* gives the same record, field by field, for every partial record.
C1_Idempotent ==
    pc = "resolved2" =>
        /\ DOMAIN resolved2 = DOMAIN resolved
        /\ \A k \in DOMAIN resolved : resolved2[k] = resolved[k]

\* C1 witness: a record with a falsy srcdir, an explicit sourcemap false and
\* a declaration object without sourcemap has been resolved twice.
C1_Witness ==
    /\ pc = "resolved2"
    /\ Has(options, "srcdir") /\ options.srcdir = EmptyStr
    /\ Has(options, "sourcemap") /\ ~options.sourcemap
    /\ TsDeclarationPresent(options)
    /\ ~Has(options.typescript.declaration, "sourcemap")
    /\ Has(options, "excludes")

\* C2 (as claimed): resolveOptions({}) has srcdir "src", outdir "out",
\* includes ["**/*"], the three default excludes and emptyOutdir not set.
C2_EmptyDefaults ==
    (pc = "resolved" /\ DOMAIN options = {}) =>
        /\ resolved.srcdir = RelStr("src")
        /\ resolved.outdir = RelStr("out")
        /\ resolved.includes = <<"**/*">>
        /\ resolved.excludes =
               <<"node_modules/**/*", "**/*.test.ts", "**/test/**/*">>
        /\ (Has(resolved, "emptyOutdir") => ~resolved.emptyOutdir)

OverridableKeys ==
    {"srcdir", "outdir", "includes", "excludes", "emptyOutdir", "sourcemap"}

\* C3 (as claimed): every field that is present in the input, falsy values
\* included, has the same value in the resolved record.
C3_NeverOverwrites ==
    pc = "resolved" =>
        \A k \in OverridableKeys \cap DOMAIN options : resolved[k] = options[k]

\* C3 (amended): a present srcdir or outdir is kept when it is not the empty
\* string and replaced by the default when it is; a present includes or
\* excludes array is kept, the empty array included; a present emptyOutdir
\* is kept, false included; sourcemap is true whatever was supplied; an
\* absent srcdir, outdir, includes or excludes gets the default.
C3_KeepsTruthy ==
    pc = "resolved" =>
        /\ \A k \in {"srcdir", "outdir"} \cap DOMAIN options :
               resolved[k] = IF options[k] /= EmptyStr THEN options[k]
                             ELSE IF k = "srcdir" THEN DefaultSrcdir
                                  ELSE DefaultOutdir
        /\ \A k \in {"includes", "excludes", "emptyOutdir"} \cap DOMAIN options :
               resolved[k] = options[k]
        /\ resolved.sourcemap = TRUE
        /\ ~Has(options, "srcdir") => resolved.srcdir = DefaultSrcdir
        /\ ~Has(options, "outdir") => resolved.outdir = DefaultOutdir
        /\ ~Has(options, "includes") => resolved.includes = DefaultIncludes
        /\ ~Has(options, "excludes") => resolved.excludes = DefaultExcludes
        /\ ~Has(options, "emptyOutdir") => ~Has(resolved, "emptyOutdir")

\* C3 witness: an input with an empty includes array, an explicit
\* emptyOutdir false and an empty srcdir has been resolved.
C3_Witness ==
    /\ pc = "resolved"
    /\ Has(options, "includes") /\ options.includes = <<>>
    /\ Has(options, "emptyOutdir") /\ ~options.emptyOutdir
    /\ Has(options, "srcdir") /\ options.srcdir = EmptyStr
    /\ Has(options, "sourcemap") /\ ~options.sourcemap

\* C4 (as claimed): after resolveOptions the top-level sourcemap is true
\* when the input has none, and typescript.declaration.sourcemap is true
\* when the input has none, whatever the shape of the typescript block.
C4_SourcemapsForced ==
    pc = "resolved" =>
        /\ ~Has(options, "sourcemap") => resolved.sourcemap = TRUE
        /\ ~(TsDeclarationPresent(options)
               /\ Has(options.typescript.declaration, "sourcemap"))
              => /\ Has(resolved.typescript.declaration, "sourcemap")
                 /\ resolved.typescript.declaration.sourcemap = TRUE

----------------------------------------------------------------------------
(* config.ts: loadJsonOptions and loadYamlOptions.                         *)
(*                                                                         *)
(* A configuration document is the sequence of its items.  An item is a    *)
(* one-key record: a comment ("//", "/*" or "#"), a member key: value, or  *)
(* "!" for text that is not valid in the format.  A JSON document is the   *)
(* object literal that holds the items between its braces.                 *)

IsJsonComment(item) == DOMAIN item \subseteq {"//", "/*"}
IsYamlComment(item) == DOMAIN item = {"#"}
IsGarbage(item) == DOMAIN item = {"!"}

\* strip-json-comments: line and block comments are removed.
stripJsonComments(doc) == SelectSeq(doc, LAMBDA item : ~IsJsonComment(item))

\* The object built from the members, a repeated key taking its last value.
RECURSIVE Members(_)
Members(doc) ==
    IF doc = <<>> THEN <<>>
    ELSE doc[Len(doc)] @@ Members(SubSeq(doc, 1, Len(doc) - 1))

Malformed(doc) == \E i \in 1..Len(doc) : IsGarbage(doc[i])

ParseError == [error |-> "ParseError"]

\* JSON.parse: a comment left in the text, like any other invalid text, is a
\* syntax error.
JsonParse(doc) ==
    IF Malformed(doc)
       \/ \E i \in 1..Len(doc) : IsJsonComment(doc[i]) \/ IsYamlComment(doc[i])
    THEN ParseError
    ELSE [value |-> Members(doc)]

\* yaml.parse: comments are skipped; a document without content is null.
YamlNull == [null |-> TRUE]

YamlParse(doc) ==
    LET content == SelectSeq(doc, LAMBDA item : ~IsYamlComment(item))
    IN  IF Malformed(content) \/ \E i \in 1..Len(content) : IsJsonComment(content[i])
        THEN ParseError
        ELSE IF content = <<>> THEN YamlNull
        ELSE [value |-> Members(content)]

\* const raw = JSON.parse(stripJsonComments(code)); return raw
loadJsonOptions(doc) ==
    LET raw == JsonParse(stripJsonComments(doc))
    IN  raw

\* const raw = yaml.parse(code); return raw || {}
loadYamlOptions(doc) ==
    LET raw == YamlParse(doc)
    IN  IF raw = ParseError THEN ParseError
        ELSE IF raw = YamlNull THEN [value |-> <<>>]
        ELSE raw

MaxItems == 3

JsonItems ==
    {("//" :> "note"), ("/*" :> "note"), ("!" :> "text")}
    \cup {("srcdir" :> v) : v \in {RelStr("source"), RelStr("src")}}
    \cup {("outdir" :> RelStr("dist")), ("includes" :> <<"**/*.tsx">>),
          ("excludes" :> <<"test/**/*">>)}

YamlItems ==
    {("#" :> "note"), ("!" :> "text")}
    \cup {("srcdir" :> v) : v \in {RelStr("source"), RelStr("src")}}
    \cup {("outdir" :> RelStr("dist")), ("includes" :> <<"**/*.tsx">>),
          ("excludes" :> <<"test/**/*">>)}

Documents(items) == UNION {[1..n -> items] : n \in 0..MaxItems}

LoadInit ==
    /\ pc = "start"
    /\ format \in {"json", "yaml"}
    /\ code \in Documents(IF format = "json" THEN JsonItems ELSE YamlItems)
    /\ loaded = <<>>
    /\ options = Idle /\ resolved = Idle /\ resolved2 = Idle
    /\ file = Idle /\ outBase = Idle /\ artifacts = Idle
    /\ world = Idle /\ fsDirs = {} /\ fsFiles = Idle
    /\ files = Idle /\ tasks = Idle
    /\ NoRun

\* The outcome of a loader call: the record it returns, or the error thrown.
Returned(result) ==
    /\ pc' = IF result = ParseError THEN "threw" ELSE "loaded"
    /\ loaded' = IF result = ParseError THEN <<>> ELSE result.value

LoadJson ==
    /\ pc = "start"
    /\ format = "json"
    /\ Returned(loadJsonOptions(code))
    /\ UNCHANGED <<format, code, resolveVars, pathVars, packVars, runVars>>

LoadYaml ==
    /\ pc = "start"
    /\ format = "yaml"
    /\ Returned(loadYamlOptions(code))
    /\ UNCHANGED <<format, code, resolveVars, pathVars, packVars, runVars>>

LoadNext == LoadJson \/ LoadYaml

SpecLoad == LoadInit /\ [][LoadNext]_vars

ConfigKeys == {"srcdir", "outdir", "includes", "excludes"}

\* The value the loaders' documentation and tests give a key that the
\* document does not set.
DocumentedDefault(k) ==
    CASE k = "srcdir" -> RelStr("src")
      [] k = "outdir" -> RelStr("out")
      [] k = "includes" -> <<"**/*">>
      [] k = "excludes" ->
            <<"node_modules/**/*", "**/*.test.ts", "**/test/**/*">>

\* The last value a document gives key k, if it gives one.
Sets(doc, k) == \E i \in 1..Len(doc) : DOMAIN doc[i] = {k}

\* C5 (as claimed): the record returned by loadJsonOptions / loadYamlOptions
\* holds, for each of srcdir, outdir, includes and excludes, a value: the
\* document's value for a key it sets and a default for a key it does not.
C5_LoadedWithDefaults ==
    pc = "loaded" =>
        \A k \in ConfigKeys :
            /\ Has(loaded, k)
            /\ Sets(code, k) => loaded[k] = Members(code)[k]
            /\ ~Sets(code, k) => loaded[k] = DocumentedDefault(k)

\* What the loaders do return: exactly the keys the document sets.
C5_LoadedRaw ==
    pc = "loaded" =>
        /\ DOMAIN loaded = {k \in ConfigKeys : Sets(code, k)}
        /\ \A k \in DOMAIN loaded : loaded[k] = Members(code)[k]

----------------------------------------------------------------------------
(* node:path (posix), as used by transform.                                *)

Dot == <<"", "">>
DotDot == <<"", "", "">>
EmptySeg == <<"">>

Front(q) == SubSeq(q, 1, Len(q) - 1)
Last(q) == q[Len(q)]

\* The process's working directory.
Cwd == <<Seg("proj")>>

\* normalizeString: "." and empty segments are dropped, ".." removes the
\* segment before it, stays in front of a relative path and is dropped at
\* the root.
RECURSIVE NormalizeSegs(_, _, _)
NormalizeSegs(segs, abs, acc) ==
    IF segs = <<>> THEN acc
    ELSE LET s == Head(segs)
             rest == Tail(segs)
         IN  IF s = Dot \/ s = EmptySeg THEN NormalizeSegs(rest, abs, acc)
             ELSE IF s = DotDot
             THEN IF acc /= <<>> /\ Last(acc) /= DotDot
                  THEN NormalizeSegs(rest, abs, Front(acc))
                  ELSE IF abs THEN NormalizeSegs(rest, abs, acc)
                  ELSE NormalizeSegs(rest, abs, Append(acc, s))
             ELSE NormalizeSegs(rest, abs, Append(acc, s))

\* path.resolve(p)
PathResolve(p) ==
    Str(TRUE, NormalizeSegs(IF p.abs THEN p.segs ELSE Cwd \o p.segs, TRUE, <<>>))

RECURSIVE CommonPrefix(_, _)
CommonPrefix(f, t) ==
    IF f = <<>> \/ t = <<>> \/ Head(f) /= Head(t) THEN 0
    ELSE 1 + CommonPrefix(Tail(f), Tail(t))

\* path.relative(from, to)
PathRelative(from, to) ==
    LET f == PathResolve(from).segs
        t == PathResolve(to).segs
        n == CommonPrefix(f, t)
    IN  Str(FALSE, [i \in 1..(Len(f) - n) |-> DotDot] \o SubSeq(t, n + 1, Len(t)))

\* path.join(a, b)
PathJoin(a, b) ==
    LET abs == IF a = EmptyStr THEN b.abs ELSE a.abs
        segs == NormalizeSegs(a.segs \o b.segs, abs, <<>>)
    IN  IF ~abs /\ segs = <<>> THEN Str(FALSE, <<Dot>>) ELSE Str(abs, segs)

\* path.dirname(p)
PathDirname(p) ==
    IF Len(p.segs) <= 1
    THEN IF p.abs THEN Str(TRUE, <<>>) ELSE Str(FALSE, <<Dot>>)
    ELSE Str(p.abs, Front(p.segs))

NoExt == <<>>

\* path.extname(p): from the last "." of the last segment, and "" when the
\* segment has no ".", when its only "." is its first character, or when it
\* is "..".  The extension ".x" is <<"x">>.
PathExtname(p) ==
    IF p.segs = <<>> THEN NoExt
    ELSE LET seg == Last(p.segs)
         IN  IF \/ Len(seg) = 1
                \/ (Len(seg) = 2 /\ seg[1] = "")
                \/ seg = DotDot
             THEN NoExt
             ELSE <<Last(seg)>>

\* A variant that cuts the name at its first "." (name.split(".")[0]).
PathBasenameFirstDot(p, ext) ==
    IF p.segs = <<>> THEN EmptySeg ELSE <<Last(p.segs)[1]>>

\* path.basename(p, ext): the last segment, without ext when it ends with
\* ext and is not ext alone.
PathBasename(p, ext) ==
    IF p.segs = <<>> THEN EmptySeg
    ELSE LET seg == Last(p.segs)
         IN  IF /\ ext /= NoExt
                /\ Len(seg) >= 2
                /\ Last(seg) = ext[1]
                /\ ~(Len(seg) = 2 /\ seg[1] = "")
             THEN Front(seg)
             ELSE seg

\* `${p}.suffix`: the text "." suffix appended to the path string.
Template(p, suffix) ==
    IF p.segs = <<>> THEN Str(p.abs, <<EmptySeg \o suffix>>)
    ELSE Str(p.abs, Front(p.segs) \o <<Last(p.segs) \o suffix>>)

----------------------------------------------------------------------------
(* index.ts: transform, the computation of the output paths.               *)

\* resolve(options.srcdir || "src")
TransformSrcdir(o) ==
    PathResolve(IF Has(o, "srcdir") /\ TruthyStr(o.srcdir) THEN o.srcdir
                ELSE RelStr("src"))

\* resolve(options.outdir || "out")
TransformOutdir(o) ==
    PathResolve(IF Has(o, "outdir") /\ TruthyStr(o.outdir) THEN o.outdir
                ELSE RelStr("out"))

\* join(outdir, relative(srcdir, file))
Outfile(f, o) == PathJoin(TransformOutdir(o), PathRelative(TransformSrcdir(o), f))

\* dirname(outfile)
OutfileDir(f, o) == PathDirname(Outfile(f, o))

\* basename(outfile, extname(outfile))
Outname(f, o) == PathBasename(Outfile(f, o), PathExtname(Outfile(f, o)))

\* join(outfileDir, outname)
OutBase(f, o) == PathJoin(OutfileDir(f, o), Str(FALSE, <<Outname(f, o)>>))

JsFile(f, o) == Template(OutBase(f, o), <<"js">>)
DtsFile(f, o) == Template(OutBase(f, o), <<"d", "ts">>)
JsMapFile(f, o) == Template(OutBase(f, o), <<"js", "map">>)
DtsMapFile(f, o) == Template(OutBase(f, o), <<"d", "ts", "map">>)

Artifacts(f, o) ==
    [js |-> JsFile(f, o), dts |-> DtsFile(f, o),
     jsMap |-> JsMapFile(f, o), dtsMap |-> DtsMapFile(f, o)]

----------------------------------------------------------------------------
(* Specification of the path mapping: transform is called for a file that  *)
(* lies under the source directory.                                        *)

MaxDepth == 2

\* Directory and file names of the source tree.  File names do not start
\* with a ".": glob does not match such names unless asked to.
DirNames == {Seg("a"), <<"v1", "2">>}
FileNames ==
    {<<"b", "ts">>, <<"b">>, <<"b", "test", "ts">>, <<"b", "d", "ts">>,
     <<"b", "">>, <<"b", "", "ts">>}

SrcdirStrings ==
    {EmptyStr, RelStr("src"), Str(TRUE, <<Seg("proj"), Seg("src")>>),
     Str(FALSE, <<Seg("lib"), DotDot, Seg("src")>>),
     Str(FALSE, <<Dot, Seg("packages"), Seg("core")>>)}
OutdirStrings ==
    {EmptyStr, RelStr("dist"), Str(TRUE, <<Seg("proj"), Seg("out")>>),
     Str(FALSE, <<DotDot, Seg("build")>>),
     Str(TRUE, <<Seg("tmp"), EmptySeg, Seg("out"), Dot>>)}

FileOptions == PartialOf([srcdir |-> SrcdirStrings, outdir |-> OutdirStrings])

RelDirs == UNION {[1..n -> DirNames] : n \in 0..MaxDepth}

PathInit ==
    /\ pc = "start"
    /\ options \in FileOptions
    /\ \E rel \in RelDirs, name \in FileNames :
           file = Str(TRUE, TransformSrcdir(options).segs \o rel \o <<name>>)
    /\ outBase = <<>>
    /\ artifacts = <<>>
    /\ resolved = Idle /\ resolved2 = Idle
    /\ format = Idle /\ code = Idle /\ loaded = Idle
    /\ world = Idle /\ fsDirs = {} /\ fsFiles = Idle
    /\ files = Idle /\ tasks = Idle
    /\ NoRun

TransformPaths ==
    /\ pc = "start"
    /\ outBase' = OutBase(file, options)
    /\ artifacts' = Artifacts(file, options)
    /\ pc' = "mapped"
    /\ UNCHANGED <<file, resolveVars, loadVars, packVars, runVars>>

PathNext == TransformPaths

SpecPath == PathInit /\ [][PathNext]_vars

\* The name without its final extension.
Stem(name) == IF Len(name) > 1 THEN Front(name) ELSE name

\* The part of the file's path below the source directory.
Below(dir, f) == SubSeq(f.segs, Len(dir.segs) + 1, Len(f.segs))

\* C6: for a file srcdir/rel/name.ext under the resolved srcdir the output
\* base is outdir/rel/name: the path relative to srcdir joined onto the
\* resolved outdir, with only the final extension removed; the artifacts
\* are the base plus .js, .d.ts, .js.map and .d.ts.map; and /proj/src/a/b.ts
\* with srcdir /proj/src and outdir /proj/out maps to /proj/out/a/b.
C6_OutputBase ==
    pc = "mapped" =>
        LET rel == Below(TransformSrcdir(options), file)
            base == TransformOutdir(options).segs \o Front(rel)
                        \o <<Stem(Last(rel))>>
        IN  /\ outBase = Str(TRUE, base)
            /\ artifacts.js = Str(TRUE, Front(base) \o <<Last(base) \o <<"js">>>>)
            /\ artifacts.dts = Str(TRUE, Front(base) \o <<Last(base) \o <<"d", "ts">>>>)
            /\ artifacts.jsMap =
                   Str(TRUE, Front(base) \o <<Last(base) \o <<"js", "map">>>>)
            /\ artifacts.dtsMap =
                   Str(TRUE, Front(base) \o <<Last(base) \o <<"d", "ts", "map">>>>)
            /\ (/\ TransformSrcdir(options).segs = <<Seg("proj"), Seg("src")>>
                /\ TransformOutdir(options).segs = <<Seg("proj"), Seg("out")>>
                /\ rel = <<Seg("a"), <<"b", "ts">>>>)
               => outBase = Str(TRUE, <<Seg("proj"), Seg("out"), Seg("a"), Seg("b")>>)

\* C6 witness: /proj/src/a/b.test.ts has been mapped with srcdir and outdir
\* given as relative strings that need normalising.
C6_Witness ==
    /\ pc = "mapped"
    /\ Has(options, "srcdir") /\ options.srcdir.segs = <<Seg("lib"), DotDot, Seg("src")>>
    /\ Has(options, "outdir") /\ options.outdir.segs = <<DotDot, Seg("build")>>
    /\ file.segs = <<Seg("proj"), Seg("src"), Seg("a"), <<"b", "test", "ts">>>>
    /\ outBase.segs = <<Seg("build"), Seg("a"), <<"b", "test">>>>

----------------------------------------------------------------------------
(* node:fs.  A file system is [dirs, files]: the set of the directories    *)
(* that exist and the data of every regular file that exists, both keyed   *)
(* by the segments of the absolute path.                                   *)

Fs(dirs, fileData) == [dirs |-> dirs, files |-> fileData]

\* p lies below directory d.
Under(d, p) == Len(p) > Len(d) /\ SubSeq(p, 1, Len(d)) = d

existsSync(fs, p) == p \in fs.dirs \/ p \in DOMAIN fs.files
isDirectory(fs, p) == p \in fs.dirs

\* readdirSync(d): the names of the entries directly inside d.
readdirSync(fs, d) ==
    {p[Len(d) + 1] : p \in {q \in fs.dirs \cup DOMAIN fs.files : Under(d, q)}}

\* rmSync(p, { recursive: true })
rmSync(fs, p) ==
    LET gone(q) == q = p \/ Under(p, q)
    IN  Fs({d \in fs.dirs : ~gone(d)},
           [f \in {g \in DOMAIN fs.files : ~gone(g)} |-> fs.files[f]])

\* readFileSync(p) throws when p is not a regular file.
CanRead(fs, p) == p \in DOMAIN fs.files

\* writeFileSync(p, data) throws when the directory of p does not exist
\* (ENOENT) or p is a directory (EISDIR); it creates no directory.
CanWrite(fs, p) == p /= <<>> /\ Front(p) \in fs.dirs /\ p \notin fs.dirs

writeFileSync(fs, p, data) == Fs(fs.dirs, (p :> data) @@ fs.files)

----------------------------------------------------------------------------
(* utils.ts.                                                               *)

\* An optional argument: <<>> is undefined, <<v>> is the value v.
Undefined == <<>>
Opt(r, k) == IF Has(r, k) THEN <<r[k]>> ELSE Undefined

\* A variant that tests the data for truthiness: if (!data) return
ShouldWriteTruthy(data) == data /= Undefined /\ data[1] /= ""

\* maybeWriteFile: if (data === undefined) return
ShouldWrite(data) == data /= Undefined

RECURSIVE RemoveEach(_, _, _)
RemoveEach(fs, d, items) ==
    IF items = {} THEN fs
    ELSE LET item == CHOOSE x \in items : TRUE
         IN  RemoveEach(rmSync(fs, Append(d, item)), d, items \ {item})

\* A variant that removes the directory itself: rmSync(dir, { recursive })
maybeEmptyDirWhole(fs, dir) ==
    LET d == PathResolve(dir).segs
    IN  IF TruthyStr(dir) /\ existsSync(fs, d) /\ isDirectory(fs, d)
        THEN rmSync(fs, d)
        ELSE fs

\* maybeEmptyDir(dir)
maybeEmptyDir(fs, dir) ==
    LET d == PathResolve(dir).segs
    IN  IF TruthyStr(dir) /\ existsSync(fs, d) /\ isDirectory(fs, d)
        THEN RemoveEach(fs, d, readdirSync(fs, d))
        ELSE fs

----------------------------------------------------------------------------
(* glob: the patterns that the options of this model use.                  *)

EndsWith(name, parts) ==
    /\ Len(name) > Len(parts)
    /\ SubSeq(name, Len(name) - Len(parts) + 1, Len(name)) = parts

Matches(pattern, rel) ==
    CASE pattern = "**/*" -> TRUE
      [] pattern = "**/*.ts" -> EndsWith(Last(rel), <<"ts">>)
      [] pattern = "**/*.tsx" -> EndsWith(Last(rel), <<"tsx">>)
      [] pattern = "**/*.test.ts" -> EndsWith(Last(rel), <<"test", "ts">>)
      [] pattern = "node_modules/**/*" ->
            Len(rel) >= 2 /\ rel[1] = Seg("node_modules")
      [] pattern = "test/**/*" -> Len(rel) >= 2 /\ rel[1] = Seg("test")
      [] pattern = "**/test/**/*" ->
            \E i \in 1..(Len(rel) - 1) : rel[i] = Seg("test")
      [] OTHER -> FALSE

MatchesAny(patterns, rel) ==
    \E i \in 1..Len(patterns) : Matches(patterns[i], rel)

\* glob(includes, { cwd: srcdir, ignore: excludes, nodir: true,
\* absolute: true }): the regular files below srcdir whose relative path
\* matches an include pattern and no exclude pattern, as absolute paths.
Glob(fs, o) ==
    LET cwd == PathResolve(o.srcdir).segs
    IN  {Str(TRUE, f) : f \in
            {g \in DOMAIN fs.files :
                /\ Under(cwd, g)
                /\ MatchesAny(o.includes, SubSeq(g, Len(cwd) + 1, Len(g)))
                /\ ~MatchesAny(o.excludes, SubSeq(g, Len(cwd) + 1, Len(g)))}}

\* The orders in which glob may return a set of paths.
Orders(S) ==
    {q \in [1..Cardinality(S) -> S] : \A i, j \in DOMAIN q : i /= j => q[i] /= q[j]}

----------------------------------------------------------------------------
(* index.ts: transform, after the paths.                                   *)

\* What transformAsync may resolve with for file f: the code, and
\* optionally a declaration (possibly the empty text), a source map and a
\* declaration map.  An absent key is undefined.
SourceMapOf(f) == [sources |-> <<f>>, sourcesContent |-> <<"text">>]

TransformResults(f) ==
    {[code |-> "js"] @@ r :
        r \in PartialOf([declaration |-> {"", "decl"},
                         map |-> {SourceMapOf(f)},
                         declarationMap |-> {SourceMapOf(f)}])}

\* resolveSourceMap(raw): undefined for no map, else the JSON text of the
\* map with its sources made relative to the output directory and without
\* sourcesContent.
resolveSourceMap(raw, outfileDir) ==
    IF raw = Undefined THEN Undefined
    ELSE <<[json |->
              [sources |->
                 [i \in 1..Len(raw[1].sources) |->
                    PathRelative(outfileDir, raw[1].sources[i])]]]>>

\* The four writes of transform, in order: the first is writeFileSync, the
\* others are maybeWriteFile.
\* `out` holds the paths that transform computed before its await.
WriteSteps(out, r) ==
    <<[kind |-> "js", path |-> out.js.segs, maybe |-> FALSE,
       data |-> <<r.code>>],
      [kind |-> "dts", path |-> out.dts.segs, maybe |-> TRUE,
       data |-> Opt(r, "declaration")],
      [kind |-> "jsMap", path |-> out.jsMap.segs, maybe |-> TRUE,
       data |-> resolveSourceMap(Opt(r, "map"), out.dir)],
      [kind |-> "dtsMap", path |-> out.dtsMap.segs, maybe |-> TRUE,
       data |-> resolveSourceMap(Opt(r, "declarationMap"), out.dir)]>>

\* The writes run until one throws: [fs, wrote, threw], where wrote maps
\* the kind of each artifact written to its data.
RECURSIVE RunWrites(_, _, _)
RunWrites(fs, steps, wrote) ==
    IF steps = <<>> THEN [fs |-> fs, wrote |-> wrote, threw |-> FALSE]
    ELSE LET step == Head(steps)
         IN  IF step.maybe /\ ~ShouldWrite(step.data)
             THEN RunWrites(fs, Tail(steps), wrote)
             ELSE IF ~CanWrite(fs, step.path)
             THEN [fs |-> fs, wrote |-> wrote, threw |-> TRUE]
             ELSE RunWrites(writeFileSync(fs, step.path, step.data[1]),
                            Tail(steps), (step.kind :> step.data[1]) @@ wrote)

TransformWrites(fs, out, r) == RunWrites(fs, WriteSteps(out, r), <<>>)

\* The state of one transform call: where it is, why it failed, the paths
\* it computed, what the transformer returned and what it wrote.
Running(out) ==
    [st |-> "running", cause |-> "", out |-> out, res |-> <<>>, wrote |-> <<>>]
Failed(cause, out, res, wrote) ==
    [st |-> "failed", cause |-> cause, out |-> out, res |-> res, wrote |-> wrote]
Done(out, res, wrote) ==
    [st |-> "done", cause |-> "", out |-> out, res |-> res, wrote |-> wrote]

\* outfileDir and the four artifact paths of file f.
OutPaths(f, o) == [dir |-> OutfileDir(f, o)] @@ Artifacts(f, o)

\* transform up to its await: the paths are computed, readFileSync reads
\* the source (and throws when it cannot) and transformAsync is called.
Launch(fs, f, o) ==
    IF CanRead(fs, f.segs) THEN Running(OutPaths(f, o))
    ELSE Failed("read", OutPaths(f, o), <<>>, <<>>)

----------------------------------------------------------------------------
(* index.ts: pack.                                                         *)

MaxFiles == 2

\* The source tree: paths relative to the source directory.
SourceFiles ==
    {<<<<"a", "ts">>>>, <<<<"a", "mts">>>>, <<Seg("a"), <<"b", "ts">>>>,
     <<<<"a", "test", "ts">>>>}

\* The output directory before the call: absent, an empty directory, a
\* directory with entries of an earlier run, or a regular file.
OutStates == {"absent", "empty", "stale", "file"}

Worlds ==
    {[tree |-> t, out |-> s] :
        t \in {x \in SUBSET SourceFiles : Cardinality(x) <= MaxFiles},
        s \in OutStates}

PackCallOptions ==
    PartialOf([outdir |-> {RelStr("src")},
               includes |-> {<<"**/*">>},
               emptyOutdir |-> BOOLEAN])

\* Every proper prefix of the paths in S.
Ancestors(S) == UNION {{SubSeq(q, 1, n) : n \in 0..(Len(q) - 1)} : q \in S}

SrcRoot(o) == PathResolve(ResolveSrcdir(o)).segs
OutRoot(o) == PathResolve(ResolveOutdir(o)).segs

\* The file system that world w describes for a call with options o.
InitialFs(w, o) ==
    LET src == SrcRoot(o)
        out == OutRoot(o)
        sources == {src \o rel : rel \in w.tree}
        srcDirs == Ancestors(sources) \cup Ancestors({src}) \cup {src}
        stale == {Append(out, <<"stale", "js">>),
                  out \o <<Seg("a"), <<"stale", "js">>>>}
    IN  CASE w.out = "absent" ->
               Fs(srcDirs, [f \in sources |-> "source"])
          [] w.out = "empty" ->
               Fs(srcDirs \cup {out}, [f \in sources |-> "source"])
          [] w.out = "stale" ->
               Fs(srcDirs \cup {out, Append(out, Seg("a"))},
                  [f \in sources \cup stale |->
                      IF f \in sources THEN "source" ELSE "stale"])
          [] w.out = "file" ->
               Fs(srcDirs, [f \in sources \cup {out} |->
                      IF f \in sources THEN "source" ELSE "stale"])

\* The output directory is the source directory: it exists as a directory
\* and holds the sources only.
Consistent(w, o) == OutRoot(o) = SrcRoot(o) => w.out = "empty"

PackInit ==
    /\ pc = "start"
    /\ options \in PackCallOptions
    /\ world \in Worlds
    /\ Consistent(world, options)
    /\ fsDirs = InitialFs(world, options).dirs
    /\ fsFiles = InitialFs(world, options).files
    /\ files = <<>>
    /\ tasks = <<>>
    /\ resolved = <<>>
    /\ resolved2 = Idle
    /\ format = Idle /\ code = Idle /\ loaded = Idle
    /\ file = Idle /\ outBase = Idle /\ artifacts = Idle
    /\ NoRun

\* const resolvedOptions = resolveOptions(options); glob is started.
PackCall ==
    /\ pc = "start"
    /\ resolved' = resolveOptions(options)
    /\ pc' = "glob"
    /\ UNCHANGED <<options, resolved2, loadVars, pathVars, packVars, runVars>>

\* if (resolvedOptions.emptyOutdir) maybeEmptyDir(resolvedOptions.outdir)
EmptyStep(fs, o) ==
    IF Has(o, "emptyOutdir") /\ TruthyBool(o.emptyOutdir)
    THEN maybeEmptyDir(fs, o.outdir)
    ELSE fs

\* files.map((file) => transform(file, resolvedOptions)): every call runs
\* up to its await, one after the other, whatever the earlier ones did.
LaunchAll(fs, order, o) ==
    [i \in 1..Len(order) |-> Launch(fs, order[i], o)]

\* glob has resolved: the output directory is emptied if asked, then every
\* transform is started and pack awaits Promise.all.
GlobDone ==
    /\ pc = "glob"
    /\ \E order \in Orders(Glob(Fs(fsDirs, fsFiles), resolved)) :
          LET fs == EmptyStep(Fs(fsDirs, fsFiles), resolved)
          IN  /\ files' = order
              /\ fsDirs' = fs.dirs
              /\ fsFiles' = fs.files
              /\ tasks' = LaunchAll(fs, order, resolved)
    /\ pc' = "await"
    /\ UNCHANGED <<world, resolveVars, loadVars, pathVars, runVars>>

\* A variant in which a rejected batch stops the transforms still waiting.
CanResumeUnlessRejected(i) ==
    i \in DOMAIN tasks /\ tasks[i].st = "running" /\ pc /= "rejected"

\* The continuation of transform after `await transformAsync(...)` runs
\* when the transformer settles, whatever became of the other calls and of
\* the batch.
CanResume(i) == i \in DOMAIN tasks /\ tasks[i].st = "running"

\* transformAsync rejected: the call fails without writing.
TransformRejected(i) ==
    /\ CanResume(i)
    /\ tasks' = [tasks EXCEPT ![i] = Failed("transform", @.out, <<>>, <<>>)]
    /\ UNCHANGED <<pc, world, fsVars, files, resolveVars, loadVars, pathVars, runVars>>

\* transformAsync resolved: the artifacts are written, until a write throws.
TransformResolved(i) ==
    /\ CanResume(i)
    /\ \E r \in TransformResults(files[i]) :
          LET w == TransformWrites(Fs(fsDirs, fsFiles), tasks[i].out, r)
          IN  /\ fsDirs' = w.fs.dirs
              /\ fsFiles' = w.fs.files
              /\ tasks' = [tasks EXCEPT ![i] =
                              IF w.threw THEN Failed("write", @.out, r, w.wrote)
                              ELSE Done(@.out, r, w.wrote)]
    /\ UNCHANGED <<pc, world, files, resolveVars, loadVars, pathVars, runVars>>

\* Promise.all rejects as soon as one of the calls has failed.
PackReject ==
    /\ pc = "await"
    /\ \E i \in DOMAIN tasks : tasks[i].st = "failed"
    /\ pc' = "rejected"
    /\ UNCHANGED <<resolveVars, loadVars, pathVars, packVars, runVars>>

\* Promise.all resolves when every call has completed.
PackResolve ==
    /\ pc = "await"
    /\ \A i \in DOMAIN tasks : tasks[i].st = "done"
    /\ pc' = "resolved"
    /\ UNCHANGED <<resolveVars, loadVars, pathVars, packVars, runVars>>

PackNext ==
    \/ PackCall
    \/ GlobDone
    \/ \E i \in 1..(MaxFiles + 2) : TransformRejected(i)
    \/ \E i \in 1..(MaxFiles + 2) : TransformResolved(i)
    \/ PackReject
    \/ PackResolve

SpecPack == PackInit /\ [][PackNext]_vars

----------------------------------------------------------------------------
(* Properties of pack.                                                     *)

Launched == pc \in {"await", "resolved", "rejected"}
PackSettled == pc \in {"resolved", "rejected"}
AllSettled == \A i \in DOMAIN tasks : tasks[i].st \in {"done", "failed"}

ArtifactKinds == {"js", "dts", "jsMap", "dtsMap"}

\* The paths this run has written.
WrittenPaths ==
    UNION {{tasks[i].out[k].segs : k \in DOMAIN tasks[i].wrote} : i \in DOMAIN tasks}

EmptyAsked == Has(resolved, "emptyOutdir") /\ resolved.emptyOutdir

\* The output tree held no transformed code when the transforms started:
\* the output directory was absent or empty, or it has just been emptied.
OutdirFresh ==
    \/ world.out \in {"absent", "empty"}
    \/ (world.out = "stale" /\ EmptyAsked)

\* The transformed-code files in the output tree.
JsFilesInOutdir ==
    {p \in DOMAIN fsFiles :
        Under(OutRoot(resolved), p) /\ EndsWith(Last(p), <<"js">>)}

\* C7 (as claimed): once pack and every transform have settled, a tree of N
\* discovered files with distinct relative paths has given exactly N .js
\* files in the output tree, one at the path the mapping predicts for each
\* source file, whatever the order of discovery and the interleaving.
\* Stated for the runs in which the output directory is not the source
\* directory and every transformer call returned a result.
C7_RoundTrip ==
    (/\ PackSettled /\ AllSettled /\ OutdirFresh
     /\ OutRoot(resolved) /= SrcRoot(resolved)
     /\ \A i \in DOMAIN tasks : tasks[i].cause /= "transform") =>
        /\ JsFilesInOutdir = {JsFile(files[i], resolved).segs : i \in DOMAIN files}
        /\ Cardinality(JsFilesInOutdir) = Len(files)

\* C8: when emptyOutdir is set and outdir is a directory, every entry that
\* was inside outdir is gone once the transforms have been started (only
\* what this run wrote is below it), outdir itself still exists, and nothing
\* this run wrote has been removed; nothing is removed or written before
\* that step; when outdir is no directory or does not exist, or emptyOutdir
\* is not set, nothing is removed and the step makes no call fail; and
\* maybeEmptyDir of an undefined (falsy) dir changes nothing.
C8_Emptying ==
    LET fs0 == InitialFs(world, options)
        out == OutRoot(resolved)
    IN  /\ pc \in {"start", "glob"} => (fsDirs = fs0.dirs /\ fsFiles = fs0.files)
        /\ Launched =>
              /\ (EmptyAsked /\ out \in fs0.dirs) =>
                    /\ out \in fsDirs
                    /\ \A p \in fsDirs \cup DOMAIN fsFiles :
                          Under(out, p) => p \in WrittenPaths
              /\ ~(EmptyAsked /\ out \in fs0.dirs) =>
                    /\ fsDirs = fs0.dirs
                    /\ DOMAIN fs0.files \subseteq DOMAIN fsFiles
              /\ WrittenPaths \subseteq DOMAIN fsFiles
              /\ pc = "rejected" => \E i \in DOMAIN tasks : tasks[i].st = "failed"
              /\ maybeEmptyDir(Fs(fsDirs, fsFiles), EmptyStr) = Fs(fsDirs, fsFiles)

\* C8 witness: a directory with entries of an earlier run has been emptied
\* and a transform has since written its output into it.
C8_Witness ==
    /\ Launched
    /\ EmptyAsked
    /\ world.out = "stale"
    /\ \E i \in DOMAIN tasks : tasks[i].st = "done" /\ "js" \in DOMAIN tasks[i].wrote
    /\ Append(OutRoot(resolved), <<"stale", "js">>) \notin DOMAIN fsFiles

\* C9: a transform writes the .d.ts file exactly when the transformer
\* returned a declaration (the empty text included, written as an empty
\* file), the .js.map file exactly when it returned a map and the .d.ts.map
\* file exactly when it returned a declaration map; a call that failed on
\* the way has written no artifact that was not returned.
C9_OptionalArtifacts ==
    \A i \in DOMAIN tasks :
        LET r == tasks[i].res
            w == tasks[i].wrote
        IN  /\ "dts" \in DOMAIN w => Has(r, "declaration") /\ w.dts = r.declaration
            /\ "jsMap" \in DOMAIN w => Has(r, "map")
            /\ "dtsMap" \in DOMAIN w => Has(r, "declarationMap")
            /\ tasks[i].st = "done" =>
                  /\ "js" \in DOMAIN w
                  /\ Has(r, "declaration") => "dts" \in DOMAIN w
                  /\ Has(r, "map") => "jsMap" \in DOMAIN w
                  /\ Has(r, "declarationMap") => "dtsMap" \in DOMAIN w

\* C9 witness: a transform whose result had an empty declaration and no
\* map has completed, with the .js and the empty .d.ts written and no map.
C9_Witness ==
    \E i \in DOMAIN tasks :
        /\ tasks[i].st = "done"
        /\ DOMAIN tasks[i].res = {"code", "declaration"}
        /\ tasks[i].res.declaration = ""
        /\ DOMAIN tasks[i].wrote = {"js", "dts"}
        /\ fsFiles[tasks[i].out.dts.segs] = ""
        /\ tasks[i].out.jsMap.segs \notin DOMAIN fsFiles

\* C10: every discovered file's transform is started whatever becomes of
\* the others; a transform that is waiting for the transformer can always
\* go on, also after another one has failed and the batch is rejected; and
\* a transform fails only for a cause of its own: its source cannot be
\* read, its transformer call rejected, or one of its own writes throws.
C10_FailureIsolation ==
    Launched =>
        /\ DOMAIN tasks = DOMAIN files
        /\ \A i \in DOMAIN tasks :
              /\ tasks[i].st \in {"running", "done", "failed"}
              /\ tasks[i].st = "running" => ENABLED TransformResolved(i)
              /\ tasks[i].st = "done" => tasks[i].out.js.segs \in DOMAIN fsFiles
              /\ tasks[i].st = "failed" =>
                    \/ /\ tasks[i].cause = "read"
                       /\ ~CanRead(Fs(fsDirs, fsFiles), files[i].segs)
                    \/ /\ tasks[i].cause = "transform"
                       /\ tasks[i].res = <<>>
                    \/ /\ tasks[i].cause = "write"
                       /\ \E k \in ArtifactKinds :
                             ~CanWrite(Fs(fsDirs, fsFiles), tasks[i].out[k].segs)

\* C10 witness: the batch is rejected because one transform failed, and
\* another transform has completed and written its output.
C10_Witness ==
    /\ pc = "rejected"
    /\ \E i, j \in DOMAIN tasks :
          /\ tasks[i].st = "failed"
          /\ tasks[i].cause = "transform"
          /\ tasks[j].st = "done"
          /\ tasks[j].out.js.segs \in DOMAIN fsFiles

\* C11 (as claimed): the promise of pack settles, by resolving or by
\* rejecting, only after the transform of every discovered file has
\* settled: once pack has returned to its caller, no transform of the run
\* is still waiting for the transformer or still has an output to write.
C11_AwaitsBatch == PackSettled => AllSettled

\* The part of C11 that Promise.all gives: pack resolves only after every
\* transform has completed, and rejects only after one has failed.
C11_ResolvesAfterAll ==
    /\ pc = "resolved" => \A i \in DOMAIN tasks : tasks[i].st = "done"
    /\ pc = "rejected" => \E i \in DOMAIN tasks : tasks[i].st = "failed"

\* No transform of the run writes an output after pack has rejected. It
\* does not hold: a transform still waiting when the batch is rejected
\* writes its outputs afterwards.
C11_NoWriteAfterReject ==
    [][(pc = "rejected" /\ pc' = "rejected") => fsFiles' = fsFiles]_vars

----------------------------------------------------------------------------
(* config.ts: detectOptionsFile, the script loaders, loadOptionsFile and   *)
(* loadOptions; index.ts: run.                                             *)
(*                                                                         *)
(* A configuration file on disk is a record: the document of a JSON or     *)
(* YAML file, or, for a script, what becomes of it when it is transformed  *)
(* and imported ("ok", "invalid": it does not compile, "throws": its       *)
(* evaluation throws) and the module namespace it exports.                 *)

DataFile(doc) == [doc |-> doc, script |-> "none", exports |-> <<>>]
ScriptFile(script, exports) == [doc |-> <<>>, script |-> script, exports |-> exports]

JsonExts == {<<"json">>, <<"jsonc">>, <<"json5">>}
YamlExts == {<<"yaml">>, <<"yml">>}
TsExts == {<<"ts">>, <<"mts">>}
JsExts == {<<"js">>, <<"cjs">>, <<"mjs">>}

CwdStr == Str(TRUE, Cwd)

\* The file names that the two glob patterns of detectOptionsFile match:
\* library-pack.@(json|jsonc|json5|yaml|yml) and
\* library-pack.config.@(ts|js|mts|cjs|mjs).
DetectedName(seg) ==
    \/ /\ Len(seg) = 2
       /\ seg[1] = "library-pack"
       /\ <<seg[2]>> \in JsonExts \cup YamlExts
    \/ /\ Len(seg) = 3
       /\ seg[1] = "library-pack"
       /\ seg[2] = "config"
       /\ <<seg[3]>> \in TsExts \cup JsExts

\* detectOptionsFile(root): the files globSync finds directly in root, in
\* cwd() when root is undefined or empty; the first one found is returned,
\* and undefined when there is none.
detectOptionsFile(d, path) ==
    LET root == IF Has(path, "root") /\ TruthyStr(path.root) THEN path.root
                ELSE CwdStr
    IN  {Str(TRUE, f) : f \in
            {g \in DOMAIN d : /\ Front(g) = PathResolve(root).segs
                              /\ DetectedName(Last(g))}}

\* A variant in which the root is searched first and file is the fallback.
ChosenFilesRootFirst(d, path) ==
    IF detectOptionsFile(d, path) /= {} THEN detectOptionsFile(d, path)
    ELSE IF Has(path, "file") /\ TruthyStr(path.file) THEN {path.file}
    ELSE {}

\* const file = path?.file || detectOptionsFile(path?.root): the files the
\* expression may evaluate to, none when it is undefined.
ChosenFiles(d, path) ==
    IF Has(path, "file") /\ TruthyStr(path.file) THEN {path.file}
    ELSE detectOptionsFile(d, path)

\* What a script loader returns, and the number of errors it logs.
Loaded(value) == [value |-> value, logged |-> 0]

\* A variant of the catch block that logs nothing.
CaughtSilently == [value |-> <<>>, logged |-> 0]

\* catch (error) { consola.error(...); return {} }
Caught == [value |-> <<>>, logged |-> 1]

\* return config.default || config
Exported(namespace) ==
    IF Has(namespace, "default") /\ TruthyObj(namespace.default)
    THEN namespace.default
    ELSE namespace

\* loadJSOptions: the module is imported; an import that throws (a module
\* that does not compile included) is caught.
loadJSOptions(content) ==
    IF content.script = "ok" THEN Loaded(Exported(content.exports)) ELSE Caught

\* loadTSOptions: the file is transformed, an empty result is thrown as an
\* error, the code is imported from a data URL; whatever throws is caught.
loadTSOptions(content) ==
    IF content.script = "invalid" THEN Caught
    ELSE IF content.script = "throws" THEN Caught
    ELSE Loaded(Exported(content.exports))

\* loadOptionsFile(file), up to its first await: the file is read, and a
\* JSON or YAML document is parsed at once; a script is left to its loader;
\* a file of another extension gives {}.
loadOptionsFile(f) ==
    LET q == PathResolve(f).segs
        ext == PathExtname(f)
    IN  IF q \notin DOMAIN disk
        THEN pc' = "threw" /\ loaded' = loaded
        ELSE CASE ext \in JsonExts -> Returned(loadJsonOptions(disk[q].doc))
               [] ext \in YamlExts -> Returned(loadYamlOptions(disk[q].doc))
               [] ext \in TsExts \cup JsExts -> pc' = "import" /\ loaded' = loaded
               [] OTHER -> pc' = "loaded" /\ loaded' = <<>>

\* loadOptions(path), up to its first await.
loadOptions(path) ==
    IF ChosenFiles(disk, path) = {}
    THEN /\ configFile' = configFile
         /\ loaded' = <<>>
         /\ pc' = "loaded"
    ELSE \E f \in ChosenFiles(disk, path) :
            /\ configFile' = f
            /\ loadOptionsFile(f)

\* pack(record) is called: the call starts in the file system of the world.
InvokePack(record) ==
    /\ packCalls' = Append(packCalls, record)
    /\ options' = record
    /\ pc' = "start"
    /\ fsDirs' = InitialFs(world, record).dirs
    /\ fsFiles' = InitialFs(world, record).files

MaxConfigs == 2

\* The places where configuration files lie.
ConfigPaths ==
    {<<Seg("proj"), <<"library-pack", "json">>>>,
     <<Seg("proj"), <<"library-pack", "config", "ts">>>>,
     <<Seg("cfg"), <<"library-pack", "yml">>>>,
     <<Seg("cfg"), <<"library-pack", "config", "mjs">>>>,
     <<Seg("cfg"), <<"options", "toml">>>>}

JsonDocuments ==
    {<<>>,
     <<("srcdir" :> RelStr("source"))>>,
     <<("//" :> "note"), ("outdir" :> RelStr("dist"))>>,
     <<("srcdir" :> RelStr("source")), ("!" :> "text")>>}

YamlDocuments ==
    {<<>>,
     <<("#" :> "note"), ("outdir" :> RelStr("dist"))>>,
     <<("!" :> "text")>>}

Scripts ==
    {ScriptFile("ok", [default |-> [srcdir |-> RelStr("lib")]]),
     ScriptFile("ok", [outdir |-> RelStr("dist")]),
     ScriptFile("invalid", <<>>),
     ScriptFile("throws", <<>>)}

\* The contents a file at path q may have, by its extension.
ContentsOf(q) ==
    LET ext == PathExtname(Str(TRUE, q))
    IN  CASE ext \in JsonExts -> {DataFile(doc) : doc \in JsonDocuments}
          [] ext \in YamlExts -> {DataFile(doc) : doc \in YamlDocuments}
          [] ext \in TsExts \cup JsExts -> Scripts
          [] OTHER -> {DataFile(<<>>)}

RECURSIVE DisksOver(_)
DisksOver(S) ==
    IF S = {} THEN {<<>>}
    ELSE LET q == CHOOSE x \in S : TRUE
         IN  {(q :> c) @@ d : c \in ContentsOf(q), d \in DisksOver(S \ {q})}

RunDisks ==
    UNION {DisksOver(S) :
              S \in {T \in SUBSET ConfigPaths : Cardinality(T) <= MaxConfigs}}

NotGiven == [given |-> FALSE, val |-> <<>>]
Given(val) == [given |-> TRUE, val |-> val]

\* run(), run({}), run with file and/or root, run with inline options.
RunArgs ==
    {NotGiven} \cup
    {Given(v) : v \in
        PartialOf([file |-> {EmptyStr,
                             Str(FALSE, <<<<"library-pack", "json">>>>),
                             Str(TRUE, <<Seg("cfg"), <<"library-pack", "config", "mjs">>>>),
                             Str(TRUE, <<Seg("cfg"), <<"options", "toml">>>>)},
                   root |-> {EmptyStr, Str(TRUE, <<Seg("cfg")>>), Str(FALSE, <<Dot>>)},
                   srcdir |-> {RelStr("lib")}])}

\* The source tree and output directory that the started pack finds.
RunWorlds == {[tree |-> {<<<<"a", "ts">>>>}, out |-> "empty"]}

RunInit ==
    /\ pc = "run"
    /\ arg \in RunArgs
    /\ disk \in RunDisks
    /\ world \in RunWorlds
    /\ configFile = Idle
    /\ packCalls = <<>>
    /\ errors = 0
    /\ loaded = <<>>
    /\ options = Idle /\ resolved = Idle /\ resolved2 = Idle
    /\ format = Idle /\ code = Idle
    /\ file = Idle /\ outBase = Idle /\ artifacts = Idle
    /\ fsDirs = {} /\ fsFiles = Idle
    /\ files = <<>> /\ tasks = <<>>

\* options?.file || options?.root
NamesConfig(a) ==
    /\ a.given
    /\ \/ (Has(a.val, "file") /\ TruthyStr(a.val.file))
       \/ (Has(a.val, "root") /\ TruthyStr(a.val.root))

\* !options || Object.keys(options).length === 0
NoOptions(a) == ~a.given \/ DOMAIN a.val = {}

\* run(options), up to its first await: the configuration is looked for at
\* the place the options name, or in cwd() when there are no options, and
\* options that name no place are handed to pack as they are.
RunCall ==
    /\ pc = "run"
    /\ IF NamesConfig(arg)
       THEN loadOptions(arg.val) /\ UNCHANGED <<packCalls, options, fsVars>>
       ELSE IF NoOptions(arg)
       THEN loadOptions([root |-> CwdStr]) /\ UNCHANGED <<packCalls, options, fsVars>>
       ELSE InvokePack(arg.val) /\ UNCHANGED <<configFile, loaded>>
    /\ UNCHANGED <<arg, disk, errors, resolved, resolved2, format, code,
                   pathVars, world, files, tasks>>

\* The script loader awaited by loadOptionsFile has settled.
ImportSettled ==
    /\ pc = "import"
    /\ LET content == disk[PathResolve(configFile).segs]
           r == IF PathExtname(configFile) \in TsExts
                THEN loadTSOptions(content)
                ELSE loadJSOptions(content)
       IN  /\ loaded' = r.value
           /\ errors' = errors + r.logged
    /\ pc' = "loaded"
    /\ UNCHANGED <<arg, disk, configFile, packCalls, resolveVars, format, code,
                   pathVars, packVars>>

\* loadOptions has resolved: pack(await loadOptions(...)).
RunPack ==
    /\ pc = "loaded"
    /\ InvokePack(loaded)
    /\ UNCHANGED <<arg, disk, configFile, errors, loaded, format, code,
                   resolved, resolved2, pathVars, world, files, tasks>>

\* run returns what pack returns: its promise settles with pack's.
RunNext ==
    \/ RunCall
    \/ ImportSettled
    \/ RunPack
    \/ PackNext

SpecRun == RunInit /\ [][RunNext]_vars

----------------------------------------------------------------------------
(* Properties of run.                                                      *)

GivenFile == arg.given /\ Has(arg.val, "file") /\ arg.val.file /= EmptyStr
GivenRoot == arg.given /\ Has(arg.val, "root") /\ arg.val.root /= EmptyStr
Inline == arg.given /\ DOMAIN arg.val /= {} /\ ~GivenFile /\ ~GivenRoot

PackInvoked == pc \in {"start", "glob", "await", "resolved", "rejected"}
RunSettled == pc \in {"threw", "resolved", "rejected"}

\* The configuration files that lie directly in directory d under a name
\* that is looked for.
ConfigsIn(d) ==
    {q \in DOMAIN disk : Front(q) = d /\ DetectedName(Last(q))}

\* The directory that the call names for the search, cwd() without one.
SearchedDir ==
    IF GivenRoot THEN PathResolve(arg.val.root).segs ELSE Cwd

\* The place of the configuration is the one the call names: the file when
\* one is given, else a configuration file of the root given, else one of
\* the working directory, and no file when there is none there; options
\* that name no place are packed as they are and no file is loaded.
DispatchAsNamed ==
    pc /= "run" =>
        /\ GivenFile => configFile = arg.val.file
        /\ (~GivenFile /\ ~Inline) =>
              IF ConfigsIn(SearchedDir) = {}
              THEN configFile = Idle /\ loaded = <<>> /\ pc /= "threw"
              ELSE /\ configFile /= Idle
                   /\ configFile.abs
                   /\ configFile.segs \in ConfigsIn(SearchedDir)
        /\ Inline =>
              /\ PackInvoked
              /\ packCalls = <<arg.val>>
              /\ configFile = Idle
              /\ loaded = <<>>
              /\ errors = 0
        /\ (PackInvoked /\ ~Inline) => packCalls = <<loaded>>
        /\ PackInvoked => options = packCalls[1]

\* C12 (as claimed): run with no argument or {} loads the configuration of
\* the working directory and packs with the loaded record; with a file or
\* a root it loads from that place, the file before the root; with inline
\* options and neither, it packs with those options and loads no file; and
\* in every case, once run has settled pack has been invoked exactly once.
C12_DispatchPackOnce ==
    /\ DispatchAsNamed
    /\ Len(packCalls) <= 1
    /\ RunSettled => Len(packCalls) = 1

\* C12 (amended): the same dispatch; pack is invoked at most once, exactly
\* once when the configuration has been loaded or none was to be loaded,
\* and not at all when reading or parsing the configuration file throws.
C12_Dispatch ==
    /\ DispatchAsNamed
    /\ Len(packCalls) <= 1
    /\ PackInvoked <=> Len(packCalls) = 1
    /\ (RunSettled /\ pc /= "threw") => Len(packCalls) = 1
    /\ pc = "threw" =>
          /\ packCalls = <<>>
          /\ configFile /= Idle
          /\ LET q == PathResolve(configFile).segs
             IN  \/ q \notin DOMAIN disk
                 \/ /\ PathExtname(configFile) \in JsonExts \cup YamlExts
                    /\ \E i \in 1..Len(disk[q].doc) : IsGarbage(disk[q].doc[i])

\* C12 witness: run was called with a file and with a root that holds
\* another configuration file; the file was loaded and pack, called once
\* with its record, has resolved.
C12_Witness ==
    /\ pc = "resolved"
    /\ GivenFile /\ GivenRoot
    /\ ConfigsIn(SearchedDir) /= {}
    /\ PathResolve(arg.val.file).segs \notin ConfigsIn(SearchedDir)
    /\ configFile = arg.val.file
    /\ loaded /= <<>>
    /\ packCalls = <<loaded>>

\* A run whose configuration file could not be read or parsed has settled.
C12_LoadThrew == pc = "threw" /\ packCalls = <<>>

\* The configuration file chosen is a script, and it does not compile or
\* its evaluation throws.
ScriptThrows ==
    /\ configFile /= Idle
    /\ PathResolve(configFile).segs \in DOMAIN disk
    /\ PathExtname(configFile) \in TsExts \cup JsExts
    /\ disk[PathResolve(configFile).segs].script \in {"invalid", "throws"}

\* The configuration file chosen is a JSON file with invalid text.
JsonMalformed ==
    /\ configFile /= Idle
    /\ PathResolve(configFile).segs \in DOMAIN disk
    /\ PathExtname(configFile) \in JsonExts
    /\ LET doc == disk[PathResolve(configFile).segs].doc
       IN  \E i \in 1..Len(doc) : IsGarbage(doc[i])

\* C13: a script configuration that throws when transformed or evaluated
\* makes the loader log one error and return {}; nothing is propagated,
\* and the run goes on to call pack with {}, which resolves it to the
\* defaults.  A malformed JSON configuration makes the run fail with the
\* parse error: nothing is logged and pack is never started.
C13_FailSoft ==
    /\ ScriptThrows =>
          /\ pc /= "threw"
          /\ pc /= "import" => (loaded = <<>> /\ errors = 1)
          /\ PackInvoked => packCalls = << <<>> >>
          /\ pc \in {"glob", "await", "resolved", "rejected"} =>
                /\ resolved = resolveOptions(<<>>)
                /\ resolved.srcdir = DefaultSrcdir
                /\ resolved.outdir = DefaultOutdir
                /\ resolved.includes = DefaultIncludes
                /\ resolved.excludes = DefaultExcludes
    /\ JsonMalformed =>
          /\ pc = "threw"
          /\ packCalls = <<>>
          /\ errors = 0
          /\ ~PackInvoked

\* C13 witness: a script configuration threw, one error was logged, and
\* pack, called with {}, has resolved after packing with the defaults.
C13_Witness ==
    /\ ScriptThrows
    /\ pc = "resolved"
    /\ errors = 1
    /\ packCalls = << <<>> >>
    /\ resolved.srcdir = DefaultSrcdir
    /\ \E i \in DOMAIN tasks : tasks[i].st = "done"

\* A run that chose a malformed JSON configuration has failed.
C13_JsonThrew == JsonMalformed /\ pc = "threw"

====
